---- MODULE Spec2Model ----
(***************************************************************************)
(* ProMis: the StaR Map (promis/star_map.py), the ProMis engine            *)
(* (promis/promis.py), the solver adapter (promis/logic/solver.py) and the *)
(* spatial relations (promis/logic/spatial) as state machines.             *)
(*                                                                         *)
(* Spec          the operations of one StaR Map object                     *)
(* SolveSpec     one call of ProMis.solve with its pool of workers         *)
(* RelationSpec  the construction of scalar relations                      *)
(* EngineSpec    the construction of an engine, its logic and its solves   *)
(* ScanSpec      the two scanners of a logic program on their own          *)
(* UseSpec       a StaR Map and the engine built on it, used in turn       *)
(* ClauseSpec    the clauses the relations write for a point index         *)
(***************************************************************************)
EXTENDS Integers, Sequences, FiniteSets, TLC

VARIABLES
    uam,            \* self.uam: its origin and the location types it has features of
    target,         \* self._target: its origin and its number of points
    method,         \* self._method
    relations,      \* self.relations: relation -> location type -> slot
    last,           \* the last call on the StaR Map: operation, arguments, outcome
    calls,          \* number of calls made on the StaR Map
    logic,          \* ProMis.logic of the engine built on the StaR Map
    mentioned,      \* the cached_property mentioned_relations of the engine
    pc,             \* where the call of solve is: idle, pool, returned, raised
    n_jobs,         \* solve's argument n_jobs
    batch_size,     \* solve's argument batch_size
    solve_relations,\* solve's list relations
    programs,       \* solve's list programs
    tasks,          \* the pool's tasks, one per chunk: queued, running, done
    results,        \* what the workers sent back, by task
    finished,       \* the tasks in the order their workers finished them
    collected,      \* the tasks whose results the loop of solve has taken, in order
    flattened_data, \* solve's list flattened_data
    pool,           \* the worker pool: none, open, terminated
    landscape,      \* what solve returned
    engine_call,    \* the last call on the engine: operation, arguments, error
    scalar,         \* the scalar relation constructed last
    emitted,        \* the clause a relation wrote last, piece by piece
    scanned         \* what StaRMap._get_mentioned_relations returned last

mapVars == <<uam, target, method, relations, last, calls>>

solveVars == <<logic, mentioned, pc, n_jobs, batch_size, solve_relations, programs,
               tasks, results, finished, collected, flattened_data, pool, landscape,
               engine_call>>

relationVars == <<scalar, emitted>>

scanVars == <<scanned>>

vars == <<mapVars, solveVars, relationVars, scanVars>>

----------------------------------------------------------------------------
(* Bounds of the model                                                     *)

MaxSupport == 2     \* locations in one support collection
MaxLogicLen == 2    \* relation atoms in one logic program
MaxCalls == 3       \* calls on the StaR Map in one run
MaxTarget == 3      \* points of the target in a call of solve
MaxBatch == 3       \* batch_size
MaxJobs == 2        \* n_jobs
MaxEngineCalls == 3 \* calls on the engine in one run

----------------------------------------------------------------------------
(* Values                                                                  *)

None == "None"

RelationNames == {"over", "distance", "depth"}

\* a name that relation_name_to_class rejects
UnknownRelation == "height"

LocationTypes == {"a", "b"}

Types == LocationTypes \cup {None}

Methods == {"linear", "nearest", "gaussian_process"}

Origins == {0, 1}

NoTarget == [origin |-> 0, n |-> 0]

Targets == {[origin |-> o, n |-> 2] : o \in Origins}

\* a support collection: the sequence of its locations
Supports == {[i \in 1..MaxSupport |-> i]}

NoApproximator == [method |-> None, fitted_on |-> <<>>, scaled_on |-> NoTarget]

\* a key that the defaultdict of a relation does not hold
AbsentSlot == [present |-> FALSE, collection |-> <<>>, approximator |-> NoApproximator]

NoRelation == [name |-> None, location_type |-> None, n |-> 0,
               approximator |-> NoApproximator]

\* enforced_min_variance = None
NoMinimum == [enforced |-> FALSE, value |-> 0]

\* no scan was made
NoScan == [done |-> FALSE, value |-> <<>>]

\* no call was made on the engine since it was constructed
NoEngineCall == [op |-> "none", logic_given |-> FALSE, logic_arg |-> <<>>,
                 error |-> None, count |-> 0]

\* no scalar relation was constructed
NoScalar == [constructed |-> FALSE, by |-> None, given |-> <<>>,
             minimum |-> NoMinimum, v1 |-> <<>>]

\* no clause was written
NoClause == [done |-> FALSE, class |-> None, problog_name |-> None,
             location_type |-> None, v0 |-> <<>>, v1 |-> <<>>, index |-> 0,
             text |-> <<>>]

----------------------------------------------------------------------------
(* Sequence helpers                                                        *)

RECURSIVE Concat(_)
Concat(seqs) ==
    IF seqs = <<>> THEN <<>> ELSE Head(seqs) \o Concat(Tail(seqs))

Range(s) == {s[i] : i \in DOMAIN s}

RECURSIVE Count(_, _)
Count(s, x) ==
    IF s = <<>> THEN 0
    ELSE (IF Head(s) = x THEN 1 ELSE 0) + Count(Tail(s), x)

\* the sequences over S of length at most n
RECURSIVE SeqsUpTo(_, _)
SeqsUpTo(S, n) ==
    IF n = 0 THEN {<<>>}
    ELSE LET shorter == SeqsUpTo(S, n - 1)
         IN  shorter \cup {Append(s, x) : s \in shorter, x \in S}

----------------------------------------------------------------------------
(* Logic programs and the scanner                                          *)
(*                                                                         *)
(* A logic program is the sequence of the atoms name(arg) / name(arg, T)   *)
(* that occur in its text, in text order; type is None for name(arg).      *)
(* before_comma, after_comma: there is whitespace on that side of the      *)
(* comma; quote: how the location type is quoted (none, single, double).   *)
(* prefix: the word characters the text has directly before the name, so   *)
(* that the identifier applied is prefix followed by name ("" for none).   *)

Atom(n, x, t) ==
    [name |-> n, arg |-> x, type |-> t, prefix |-> "",
     before_comma |-> FALSE, after_comma |-> FALSE, quote |-> "none"]

\* the atom written with whitespace around the comma and a quoted type
Written(atom, before, after, q) ==
    [atom EXCEPT !.before_comma = before, !.after_comma = after, !.quote = q]

\* the atom whose identifier is longer than the name: prefix, then name
Prefixed(atom, word) == [atom EXCEPT !.prefix = word]

\* the location type of the atom as the text has it, character classes
\* for characters: the name is one word
written_type(atom) ==
    IF atom.quote = "single" THEN <<"'", atom.type, "'">>
    ELSE IF atom.quote = "double" THEN <<"\"", atom.type, "\"">>
    ELSE <<atom.type>>

\* ((?:'\w*')|(?:\w+)) matches the written location type
type_pattern(w) ==
    \/ Len(w) = 3 /\ w[1] = "'" /\ w[3] = "'"
    \/ Len(w) = 1

\* if location_type[0] in "'\"": location_type = location_type[1:-1]
remove_quotes(w) ==
    IF Head(w) \in {"'", "\""} THEN SubSeq(w, 2, Len(w) - 1) ELSE w

Atoms == {Atom("distance", "X", "b"), Atom("over", "X", "b"),
          Atom("depth", "X", None)}

Logics == SeqsUpTo(Atoms, MaxLogicLen)

\* the orders in which the names of relation_arities can be iterated
RelationOrders ==
    {o \in [1..3 -> RelationNames] : \A i, j \in 1..3 : i # j => o[i] # o[j]}

\* Relation.arity() of the class relation_name_to_class gives for the name
arity(name) == IF name = "depth" THEN 1 ELSE 2

\* the regular expression rf"({name})\(X{realtes_to}\)" matches the atom;
\* finditer searches the text, and the pattern has no anchor or word boundary
\* before the name: what stands before the name (atom.prefix) is not looked at
matches(name, atom) ==
    /\ atom.name = name
    /\ atom.arg = "X"
    /\ IF arity(name) = 1 THEN atom.type = None
       ELSE /\ atom.type # None
            /\ ~atom.before_comma
            /\ type_pattern(written_type(atom))

\* the pairs appended for one name: one for every match of finditer
RECURSIVE scan_name(_, _)
scan_name(name, logic_) ==
    IF logic_ = <<>> THEN <<>>
    ELSE (IF matches(name, Head(logic_)) /\ name # "landscape"
          THEN <<(<<name, IF arity(name) = 1 THEN None
                          ELSE remove_quotes(written_type(Head(logic_)))[1]>>)>>
          ELSE <<>>) \o scan_name(name, Tail(logic_))

\* StaRMap._get_mentioned_relations, with the iteration order of the names
get_mentioned_relations(logic_, order) ==
    Concat([i \in DOMAIN order |-> scan_name(order[i], logic_)])

----------------------------------------------------------------------------
(* The StaR Map                                                            *)

\* StaRMap.clear_relations: three empty defaultdicts
clear_relations == [r \in RelationNames |-> [t \in Types |-> AbsentSlot]]

\* StaRMap._empty_relation: what a defaultdict creates for a missing key
empty_relation ==
    [present |-> TRUE, collection |-> <<>>, approximator |-> NoApproximator]

\* self.relations[relation][location_type] on a defaultdict
touch(rels, relation, location_type) ==
    IF rels[relation][location_type].present THEN rels
    ELSE [rels EXCEPT ![relation][location_type] = empty_relation]

\* StaRMap.is_fitted, once self.relations exists
is_fitted(rels) ==
    \A r \in RelationNames, t \in Types :
        rels[r][t].present => rels[r][t].approximator # NoApproximator

TypeOrder == <<"a", "b", None>>

RelationOrder == <<"over", "distance", "depth">>

\* StaRMap.relation_and_location_types, as a mapping in the form of `what`
relation_and_location_types(rels) ==
    [i \in DOMAIN RelationOrder |->
        <<RelationOrder[i],
          SelectSeq(TypeOrder, LAMBDA t : rels[RelationOrder[i]][t].present)>>]

\* location_type is in what[relation]
listed(what, relation, location_type) ==
    \E i \in DOMAIN what :
        what[i][1] = relation /\ location_type \in Range(what[i][2])

\* the approximator that fit stores for a collection
approximator_of(m, tgt, collection) ==
    [method |-> m, fitted_on |-> collection,
     scaled_on |-> IF m = "gaussian_process" THEN tgt ELSE NoTarget]

\* a fit that stores no approximator
fit_nothing(rels, m, tgt, what) == rels

\* StaRMap.fit(what): every listed slot that exists gets a new approximator
fit(rels, m, tgt, what) ==
    [r \in RelationNames |-> [t \in Types |->
        IF rels[r][t].present /\ listed(what, r, t)
        THEN [rels[r][t] EXCEPT
                 !.approximator = approximator_of(m, tgt, rels[r][t].collection)]
        ELSE rels[r][t]]]

\* the target setter (also run by __init__, before self.relations exists)
target_setter(old, rels, m, has_relations, uam_, tgt) ==
    IF tgt.origin # uam_.origin
    THEN [raised |-> TRUE, error |-> "ValueError", target |-> old, relations |-> rels]
    ELSE [raised |-> FALSE, error |-> None, target |-> tgt,
          relations |-> IF has_relations /\ is_fitted(rels)
                        THEN fit(rels, m, tgt, relation_and_location_types(rels))
                        ELSE rels]

\* a method setter that stores the method before it validates it
method_setter_store_first(old, rels, tgt, has_relations, m) ==
    IF m \notin Methods
    THEN [raised |-> TRUE, error |-> "NotImplementedError", method |-> m,
          relations |-> rels]
    ELSE [raised |-> FALSE, error |-> None, method |-> m,
          relations |-> IF has_relations /\ is_fitted(rels)
                        THEN fit(rels, m, tgt, relation_and_location_types(rels))
                        ELSE rels]

\* the method setter (also run by __init__, before self.relations exists)
method_setter(old, rels, tgt, has_relations, m) ==
    IF m \notin Methods
    THEN [raised |-> TRUE, error |-> "NotImplementedError", method |-> old,
          relations |-> rels]
    ELSE [raised |-> FALSE, error |-> None, method |-> m,
          relations |-> IF has_relations /\ is_fitted(rels)
                        THEN fit(rels, m, tgt, relation_and_location_types(rels))
                        ELSE rels]

\* Relation.empty_map_parameters() of the relation's class
empty_map_parameters(relation) == <<"empty_map_parameters", relation>>

\* Relation.compute_parameters: (mean, variance) over the sampled maps
compute_parameters(relation) == <<"moments", relation>>

\* the rows appended for the support locations, all with one value
rows(support, value) == [i \in DOMAIN support |-> [loc |-> support[i], val |-> value]]

\* all_location_types of add_support_points
all_location_types(what) == Concat([i \in DOMAIN what |-> what[i][2]])

\* the (location type, relation) pairs the two loops of add_support_points
\* reach, in the order they reach them
steps_of(what) ==
    LET alt == all_location_types(what)
        inner(t) == Concat([j \in DOMAIN what |->
                        IF t \in Range(what[j][2]) THEN <<(<<t, what[j][1]>>)>>
                        ELSE <<>>])
    IN  Concat([i \in DOMAIN alt |-> inner(alt[i])])

\* the loops of add_support_points from step k on; failing: the steps whose
\* kernel evaluation raises
RECURSIVE run_steps(_, _, _, _, _, _)
run_steps(acc, steps, k, uam_, support, failing) ==
    IF k > Len(steps) THEN acc
    ELSE
        LET t == steps[k][1]
            r == steps[k][2]
        IN  IF r \notin RelationNames
            THEN [acc EXCEPT !.raised = TRUE, !.error = "KeyError"]
            ELSE
                LET rels == touch(acc.relations, r, t)
                    empty == t \notin uam_.features
                    value == IF empty \/ k \in failing
                             THEN empty_map_parameters(r)
                             ELSE compute_parameters(r)
                    grown == [rels EXCEPT ![r][t].collection =
                                 @ \o rows(support, value)]
                IN  run_steps([acc EXCEPT
                                  !.relations = grown,
                                  !.kernel = IF empty THEN @ ELSE @ \cup {<<r, t>>},
                                  !.failed = IF ~empty /\ k \in failing
                                             THEN @ \cup {<<r, t>>} ELSE @],
                              steps, k + 1, uam_, support, failing)

\* StaRMap.add_support_points(support, number_of_random_maps, what)
add_support_points(rels, m, tgt, uam_, support, what, failing) ==
    LET done == run_steps([relations |-> rels, raised |-> FALSE, error |-> None,
                           kernel |-> {}, failed |-> {}],
                          steps_of(what), 1, uam_, support, failing)
    IN  IF done.raised THEN done
        ELSE [done EXCEPT !.relations = fit(done.relations, m, tgt, what)]

\* agg of initialize: relation -> the location types of its mentions, in order
RECURSIVE aggregate(_, _)
aggregate(agg, pairs) ==
    IF pairs = <<>> THEN agg
    ELSE
        LET r == Head(pairs)[1]
            t == Head(pairs)[2]
            next == IF \E i \in DOMAIN agg : agg[i][1] = r
                    THEN [i \in DOMAIN agg |->
                            IF agg[i][1] = r THEN <<r, Append(agg[i][2], t)>>
                            ELSE agg[i]]
                    ELSE Append(agg, <<r, <<t>>>>)
        IN  aggregate(next, Tail(pairs))

\* agg of initialize for a logic program
agg_of(logic_, order) == aggregate(<<>>, get_mentioned_relations(logic_, order))

\* StaRMap.initialize(support, number_of_random_maps, logic), from agg on
initialize(rels, m, tgt, uam_, support, agg, failing) ==
    add_support_points(rels, m, tgt, uam_, support, agg, failing)

\* the approximator of the slot can be evaluated under the method
evaluates(m, approximator) ==
    /\ approximator # NoApproximator
    /\ (m = "gaussian_process") = (approximator.method = "gaussian_process")

\* a get that answers an unfitted slot with the target's own values
get_unchecked(rels, m, tgt, relation, location_type) ==
    IF relation \notin RelationNames
    THEN [raised |-> TRUE, error |-> "KeyError", relations |-> rels,
          result |-> NoRelation]
    ELSE
        LET touched == touch(rels, relation, location_type)
            info == touched[relation][location_type]
        IN  [raised |-> FALSE, error |-> None, relations |-> touched,
             result |-> [name |-> relation, location_type |-> location_type,
                         n |-> tgt.n, approximator |-> info.approximator]]

\* StaRMap.get(relation, location_type)
get(rels, m, tgt, relation, location_type) ==
    IF relation \notin RelationNames
    THEN [raised |-> TRUE, error |-> "KeyError", relations |-> rels,
          result |-> NoRelation]
    ELSE
        LET touched == touch(rels, relation, location_type)
            info == touched[relation][location_type]
        IN  IF ~evaluates(m, info.approximator)
            THEN [raised |-> TRUE, error |-> "TypeError", relations |-> touched,
                  result |-> NoRelation]
            ELSE [raised |-> FALSE, error |-> None, relations |-> touched,
                  result |-> [name |-> relation, location_type |-> location_type,
                              n |-> tgt.n, approximator |-> info.approximator]]

\* the positional arguments add_support_points takes besides self:
\* support, number_of_random_maps, what
AddSupportPointsParameters == 3

\* the positional arguments auto_improve gives to add_support_points:
\* improvement_collection, number_of_random_maps, [relation], [location_type]
AutoImproveGives == 4

\* a call with `given` positional arguments binds to a function that takes
\* `parameters` of them at most; Python raises TypeError otherwise
binds(parameters, given) == given <= parameters

\* itertools.product(relations, location_types), as a list
product(relations_, location_types) ==
    Concat([i \in DOMAIN relations_ |->
               [j \in DOMAIN location_types |->
                   <<relations_[i], location_types[j]>>]])

\* StaRMap.auto_improve(number_of_random_maps, points, relations,
\* location_types) on a raster band target, from the pair pairs[k] on; with
\* the arguments it gives, the call of add_support_points does not bind and
\* raises before it adds a point
RECURSIVE improve_from(_, _, _, _, _, _, _, _)
improve_from(acc, pairs, k, m, tgt, uam_, points, support) ==
    IF k > Len(pairs) \/ acc.raised THEN acc
    ELSE
        LET r == pairs[k][1]
            t == pairs[k][2]
        IN  IF r \notin RelationNames
            THEN [acc EXCEPT !.raised = TRUE, !.error = "KeyError"]
            ELSE
                LET touched == touch(acc.relations, r, t)
                IN  IF touched[r][t].approximator.method # "gaussian_process"
                    THEN [acc EXCEPT !.raised = TRUE, !.error = "TypeError",
                                     !.relations = touched]
                    ELSE IF points > tgt.n
                    THEN [acc EXCEPT !.raised = TRUE, !.error = "ValueError",
                                     !.relations = touched]
                    ELSE IF ~binds(AddSupportPointsParameters, AutoImproveGives)
                    THEN [acc EXCEPT !.raised = TRUE, !.error = "TypeError",
                                     !.relations = touched]
                    ELSE improve_from(
                             add_support_points(touched, m, tgt, uam_, support,
                                                <<(<<r, <<t>>>>)>>, {}),
                             pairs, k + 1, m, tgt, uam_, points, support)

\* StaRMap.auto_improve; support: the improvement points chosen
auto_improve(rels, m, tgt, uam_, points, relations_, location_types, support) ==
    improve_from([relations |-> rels, raised |-> FALSE, error |-> None,
                  kernel |-> {}, failed |-> {}],
                 product(relations_, location_types), 1, m, tgt, uam_, points,
                 support)

\* the positional arguments fit takes besides self: what
FitParameters == 1

\* the positional arguments prune gives to fit: relations, location_types
PruneGives == 2

\* the samples AgglomerativeClustering.fit needs at least
MinSamples == 2

\* the thresholds of prune: below every distance between two different
\* locations, or above all of them
Thresholds == {"below", "above"}

\* clusters.labels_ gives the rows i and j of the collection the same label
same_cluster(collection, threshold, i, j) ==
    \/ threshold = "above"
    \/ collection[i].loc = collection[j].loc

\* sort(unique(clusters.labels_, return_index=True)[1]): the first row of
\* every label, in ascending order
pruning_index(collection, threshold) ==
    SelectSeq([i \in DOMAIN collection |-> i],
              LAMBDA i : \A j \in 1..(i - 1) :
                             ~same_cluster(collection, threshold, i, j))

\* the loop of prune from the pair pairs[k] on
RECURSIVE prune_from(_, _, _, _)
prune_from(acc, pairs, k, threshold) ==
    IF k > Len(pairs) \/ acc.raised THEN acc
    ELSE
        LET r == pairs[k][1]
            t == pairs[k][2]
        IN  IF r \notin RelationNames
            THEN [acc EXCEPT !.raised = TRUE, !.error = "KeyError"]
            ELSE
                LET touched == touch(acc.relations, r, t)
                    collection == touched[r][t].collection
                    index == pruning_index(collection, threshold)
                IN  IF Len(collection) < MinSamples
                    THEN [acc EXCEPT !.raised = TRUE, !.error = "ValueError",
                                     !.relations = touched]
                    ELSE prune_from(
                             [acc EXCEPT !.relations =
                                 [touched EXCEPT ![r][t].collection =
                                     [i \in DOMAIN index |-> collection[index[i]]]]],
                             pairs, k + 1, threshold)

\* StaRMap.prune(threshold, relations, location_types): after the loop it
\* calls self.fit(relations, location_types), which does not bind
prune(rels, m, tgt, threshold, relations_, location_types) ==
    LET done == prune_from([relations |-> rels, raised |-> FALSE, error |-> None],
                           product(relations_, location_types), 1, threshold)
    IN  IF done.raised THEN done
        ELSE IF ~binds(FitParameters, PruneGives)
        THEN [done EXCEPT !.raised = TRUE, !.error = "TypeError"]
        ELSE [done EXCEPT !.relations =
                 fit(done.relations, m, tgt,
                     [i \in DOMAIN relations_ |-> <<relations_[i], location_types>>])]

----------------------------------------------------------------------------
(* The calls on a StaR Map                                                 *)

NoCall == [op |-> "none", raised |-> FALSE, error |-> None,
           relation |-> None, location_type |-> None,
           support |-> <<>>, what |-> <<>>,
           new_method |-> None, new_target |-> NoTarget,
           result |-> NoRelation, kernel |-> {}, failed |-> {}, discarded |-> {},
           relation_list |-> <<>>, type_list |-> <<>>, points |-> 0,
           threshold |-> None]

MaxWhatLen == 2

WhatPairs ==
    {<<"distance", <<"a">>>>, <<"distance", <<"b">>>>, <<"over", <<"a">>>>,
     <<UnknownRelation, <<"a">>>>}

\* the mappings given as `what`: relation -> [location type], keys distinct
WhatInputs ==
    {w \in SeqsUpTo(WhatPairs, MaxWhatLen) :
        /\ w # <<>>
        /\ \A i, j \in DOMAIN w : i # j => w[i][1] # w[j][1]}

\* the choices of the steps whose kernel evaluation raises: none, or the first
Failings(what) == {{}} \cup {{1} : k \in 1..Len(steps_of(what))}

\* the (relation, location type) pairs asked of get
GetInputs ==
    {<<"distance", "a">>, <<"distance", "b">>, <<"over", "b">>,
     <<"depth", None>>, <<UnknownRelation, "a">>}

\* the uncertainty annotated maps: with features of type "b" and none of type "a"
Uams == {[origin |-> 0, features |-> {"b"}]}

NoLandscape == [returned |-> FALSE, n |-> 0, v0 |-> <<>>]

\* no engine is at work on the StaR Map
NoEngine ==
    /\ logic = <<>>
    /\ mentioned = [cached |-> FALSE, value |-> <<>>]
    /\ pc = "idle"
    /\ n_jobs = 0
    /\ batch_size = 0
    /\ solve_relations = <<>>
    /\ programs = <<>>
    /\ tasks = <<>>
    /\ results = <<>>
    /\ finished = <<>>
    /\ collected = <<>>
    /\ flattened_data = <<>>
    /\ pool = "none"
    /\ landscape = NoLandscape
    /\ engine_call = NoEngineCall

\* the StaR Map as StaRMap(target, uam, method) returns it
Init ==
    /\ uam \in Uams
    /\ target \in {t \in Targets : t.origin = uam.origin}
    /\ method \in Methods
    /\ relations = clear_relations
    /\ last = NoCall
    /\ calls = 0
    /\ NoEngine
    /\ scalar = NoScalar
    /\ emitted = NoClause
    /\ scanned = NoScan

\* star_map = StaRMap(tgt, uam, m): __init__ runs both setters before
\* self.relations exists, then clear_relations; when it raises, the name keeps
\* the object it had
Construct(tgt, m) ==
    /\ calls < MaxCalls
    /\ calls' = calls + 1
    /\ \E t \in {target_setter(target, relations, method, FALSE, uam, tgt)} :
       \E s \in {method_setter(method, relations, tgt, FALSE, m)} :
           /\ target' = IF t.raised \/ s.raised THEN target ELSE t.target
           /\ method' = IF t.raised \/ s.raised THEN method ELSE s.method
           /\ relations' = IF t.raised \/ s.raised THEN relations
                           ELSE clear_relations
           /\ last' = [NoCall EXCEPT !.op = "construct",
                          !.raised = t.raised \/ s.raised,
                          !.error = IF t.raised THEN t.error ELSE s.error,
                          !.new_method = m, !.new_target = tgt]
    /\ UNCHANGED <<uam, solveVars, relationVars, scanVars>>

\* star_map.target = tgt
SetTarget(tgt) ==
    /\ calls < MaxCalls
    /\ calls' = calls + 1
    /\ \E t \in {target_setter(target, relations, method, TRUE, uam, tgt)} :
           /\ target' = t.target
           /\ relations' = t.relations
           /\ last' = [NoCall EXCEPT !.op = "set_target", !.raised = t.raised,
                          !.error = t.error, !.new_target = tgt]
    /\ UNCHANGED <<uam, method, solveVars, relationVars, scanVars>>

\* star_map.method = m
SetMethod(m) ==
    /\ calls < MaxCalls
    /\ calls' = calls + 1
    /\ \E s \in {method_setter(method, relations, target, TRUE, m)} :
           /\ method' = s.method
           /\ relations' = s.relations
           /\ last' = [NoCall EXCEPT !.op = "set_method", !.raised = s.raised,
                          !.error = s.error, !.new_method = m]
    /\ UNCHANGED <<uam, target, solveVars, relationVars, scanVars>>

\* star_map.initialize(support, number_of_random_maps, logic)
Initialize(support, logic_) ==
    /\ calls < MaxCalls
    /\ calls' = calls + 1
    /\ \E what \in {agg_of(logic_, order) : order \in RelationOrders} :
       \E failing \in Failings(what) :
       \E r \in {initialize(relations, method, target, uam, support, what, failing)} :
           /\ relations' = r.relations
           /\ last' = [NoCall EXCEPT !.op = "initialize",
                          !.raised = r.raised, !.error = r.error,
                          !.support = support, !.what = what,
                          !.kernel = r.kernel, !.failed = r.failed]
    /\ UNCHANGED <<uam, target, method, solveVars, relationVars, scanVars>>

\* star_map.add_support_points(support, number_of_random_maps, what)
AddSupportPoints(support, what) ==
    /\ calls < MaxCalls
    /\ calls' = calls + 1
    /\ \E failing \in Failings(what) :
       \E r \in {add_support_points(relations, method, target, uam, support,
                                    what, failing)} :
           /\ relations' = r.relations
           /\ last' = [NoCall EXCEPT !.op = "add_support_points",
                          !.raised = r.raised, !.error = r.error,
                          !.support = support, !.what = what,
                          !.kernel = r.kernel, !.failed = r.failed]
    /\ UNCHANGED <<uam, target, method, solveVars, relationVars, scanVars>>

\* star_map.fit()
Fit ==
    /\ calls < MaxCalls
    /\ calls' = calls + 1
    /\ relations' = fit(relations, method, target,
                        relation_and_location_types(relations))
    /\ last' = [NoCall EXCEPT !.op = "fit"]
    /\ UNCHANGED <<uam, target, method, solveVars, relationVars, scanVars>>

\* star_map.get(relation, location_type)
Get(relation, location_type) ==
    /\ calls < MaxCalls
    /\ calls' = calls + 1
    /\ \E g \in {get(relations, method, target, relation, location_type)} :
           /\ relations' = g.relations
           /\ last' = [NoCall EXCEPT !.op = "get", !.raised = g.raised,
                          !.error = g.error, !.relation = relation,
                          !.location_type = location_type, !.result = g.result]
    /\ UNCHANGED <<uam, target, method, solveVars, relationVars, scanVars>>

\* the slots that hold support points
with_support(rels) ==
    {<<r, t>> \in RelationNames \X Types : rels[r][t].collection # <<>>}

\* a clear_relations that drops the approximators and keeps the support
ClearRelations_keeping_support ==
    /\ calls < MaxCalls
    /\ calls' = calls + 1
    /\ relations' = [r \in RelationNames |-> [t \in Types |->
                         [relations[r][t] EXCEPT !.approximator = NoApproximator]]]
    /\ last' = [NoCall EXCEPT !.op = "clear_relations",
                   !.discarded = with_support(relations)]
    /\ UNCHANGED <<uam, target, method, solveVars, relationVars, scanVars>>

\* star_map.clear_relations(); discarded: the slots that held support
ClearRelations ==
    /\ calls < MaxCalls
    /\ calls' = calls + 1
    /\ relations' = clear_relations
    /\ last' = [NoCall EXCEPT !.op = "clear_relations",
                   !.discarded = with_support(relations)]
    /\ UNCHANGED <<uam, target, method, solveVars, relationVars, scanVars>>

\* the lists of relations and of location types given to auto_improve and
\* to prune
ListInputs == {<<(<<"distance">>), (<<"b">>)>>, <<(<<"over", "distance">>), (<<"b">>)>>}

\* star_map.auto_improve(number_of_random_maps, points, relations_,
\* location_types); the targets are raster bands, the improvement points are
\* the first cells of the target
AutoImprove(points, relations_, location_types) ==
    /\ calls < MaxCalls
    /\ calls' = calls + 1
    /\ \E r \in {auto_improve(relations, method, target, uam, points, relations_,
                               location_types, [i \in 1..points |-> i])} :
           /\ relations' = r.relations
           /\ last' = [NoCall EXCEPT !.op = "auto_improve",
                          !.raised = r.raised, !.error = r.error,
                          !.relation_list = relations_,
                          !.type_list = location_types, !.points = points]
    /\ UNCHANGED <<uam, target, method, solveVars, relationVars, scanVars>>

\* star_map.prune(threshold, relations_, location_types)
Prune(threshold, relations_, location_types) ==
    /\ calls < MaxCalls
    /\ calls' = calls + 1
    /\ \E r \in {prune(relations, method, target, threshold, relations_,
                        location_types)} :
           /\ relations' = r.relations
           /\ last' = [NoCall EXCEPT !.op = "prune",
                          !.raised = r.raised, !.error = r.error,
                          !.relation_list = relations_,
                          !.type_list = location_types,
                          !.threshold = threshold]
    /\ UNCHANGED <<uam, target, method, solveVars, relationVars, scanVars>>

Next ==
    \/ \E tgt \in Targets, m \in Methods \cup {"cubic"} : Construct(tgt, m)
    \/ \E tgt \in Targets : SetTarget(tgt)
    \/ \E m \in Methods \cup {"cubic"} : SetMethod(m)
    \/ \E support \in Supports, logic_ \in Logics : Initialize(support, logic_)
    \/ \E support \in Supports :
           \E what \in WhatInputs \cup {relation_and_location_types(relations)} :
               AddSupportPoints(support, what)
    \/ Fit
    \/ \E g \in GetInputs : Get(g[1], g[2])
    \/ ClearRelations
    \/ \E l \in ListInputs : AutoImprove(1, l[1], l[2])
    \/ \E threshold \in Thresholds, l \in ListInputs : Prune(threshold, l[1], l[2])

Spec == Init /\ [][Next]_vars

----------------------------------------------------------------------------
(* The ProMis engine: solve                                                *)

ChunkThreshold == 1000

LargeChunk == 10

NoResult == [ok |-> FALSE, value |-> <<>>]

\* ProMis.mentioned_relations, with the iteration order of the names
mentioned_relations(logic_, order) ==
    Concat([i \in DOMAIN order |-> scan_name(order[i], logic_)])

\* the list relations of solve: one get per mentioned pair, in turn, up to
\* the first that raises
RECURSIVE get_all(_, _, _, _, _)
get_all(acc, m, tgt, pairs, k) ==
    IF k > Len(pairs) \/ acc.raised THEN acc
    ELSE
        LET g == get(acc.relations, m, tgt, pairs[k][1], pairs[k][2])
        IN  get_all([raised |-> g.raised, error |-> g.error,
                     relations |-> g.relations,
                     results |-> IF g.raised THEN acc.results
                                 ELSE Append(acc.results, g.result)],
                    m, tgt, pairs, k + 1)

\* queries[index]
query(index) == [kind |-> "query", index |-> index, relation |-> NoRelation]

\* relation.index_to_distributional_clause(index)
index_to_distributional_clause(relation, index) ==
    [kind |-> "clause", index |-> index, relation |-> relation]

\* the "\n" that ends the part of one index
blank == [kind |-> "blank", index |-> 0, relation |-> NoRelation]

\* the clauses solve writes behind the query of an index
clauses(rels, index) ==
    [j \in DOMAIN rels |-> index_to_distributional_clause(rels[j], index)]

\* a batch loop that numbers the clauses from the start of the batch
RECURSIVE batch_body_local_clauses(_, _, _, _, _)
batch_body_local_clauses(batch_index, index, bs, number_of_queries, rels) ==
    IF batch_index >= index + bs THEN <<>>
    ELSE IF batch_index >= number_of_queries THEN <<>>
    ELSE <<query(batch_index)>> \o clauses(rels, batch_index - index) \o <<blank>>
         \o batch_body_local_clauses(batch_index + 1, index, bs,
                                     number_of_queries, rels)

\* a batch loop that does not stop at the last query
RECURSIVE batch_body_no_break(_, _, _, _, _)
batch_body_no_break(batch_index, index, bs, number_of_queries, rels) ==
    IF batch_index >= index + bs THEN <<>>
    ELSE <<query(batch_index)>> \o clauses(rels, batch_index) \o <<blank>>
         \o batch_body_no_break(batch_index + 1, index, bs,
                                number_of_queries, rels)

\* the loop over batch = range(index, index + batch_size), from batch_index on
RECURSIVE batch_body(_, _, _, _, _)
batch_body(batch_index, index, bs, number_of_queries, rels) ==
    IF batch_index >= index + bs THEN <<>>
    ELSE IF batch_index >= number_of_queries THEN <<>>
    ELSE <<query(batch_index)>> \o clauses(rels, batch_index) \o <<blank>>
         \o batch_body(batch_index + 1, index, bs, number_of_queries, rels)

\* the list programs of solve: one per index of range(0, M, batch_size)
build_programs(logic_, number_of_queries, bs, rels) ==
    [k \in 1..((number_of_queries + bs - 1) \div bs) |->
        [logic |-> logic_,
         body |-> batch_body((k - 1) * bs, (k - 1) * bs, bs,
                             number_of_queries, rels)]]

\* the probability of a query: what the solver computes from the logic and
\* the clauses of the program that carry the index of the query
answer(program, index) ==
    [index |-> index, logic |-> program.logic,
     clauses |-> SelectSeq(program.body,
                     LAMBDA it : it.kind = "clause" /\ it.index = index)]

\* Solver(program).inference(): one probability per query, in program order
inference(program) ==
    LET queries == SelectSeq(program.body, LAMBDA it : it.kind = "query")
    IN  [k \in DOMAIN queries |-> answer(program, queries[k].index)]

\* the chunksize solve gives to imap
chunksize(number_of_programs) ==
    IF number_of_programs > ChunkThreshold THEN LargeChunk ELSE 1

\* the programs of the k-th task of the pool
chunk(ps, k) ==
    SubSeq(ps, (k - 1) * chunksize(Len(ps)) + 1,
           IF k * chunksize(Len(ps)) < Len(ps) THEN k * chunksize(Len(ps))
           ELSE Len(ps))

number_of_chunks(ps) == (Len(ps) + chunksize(Len(ps)) - 1) \div chunksize(Len(ps))

\* an iterator that hands out results in the order the workers finish
imap_unordered(tasks_, collected_) ==
    {k \in DOMAIN tasks_ : tasks_[k] = "done" /\ k \notin Range(collected_)}

\* the task whose results the iterator of pool.imap yields next, once done
imap(tasks_, collected_) ==
    {k \in DOMAIN tasks_ : tasks_[k] = "done" /\ k = Len(collected_) + 1}

\* an iterator that skips the results of a task that raised
yielded_swallowing(result) ==
    [raised |-> FALSE, batches |-> IF result.ok THEN result.value ELSE <<>>]

\* what the iterator does with the result of a task: yield its batches, or
\* raise the exception of the worker in the loop of solve
yielded(result) ==
    [raised |-> ~result.ok, batches |-> IF result.ok THEN result.value ELSE <<>>]

\* the targets of the landscapes: MaxTarget points at most
SolveTargets == {[origin |-> 0, n |-> k] : k \in 0..MaxTarget}

\* an engine ProMis(star_map, logic) on a StaR Map that was constructed and
\* then either left as it is or initialized for the logic
SolveInit ==
    /\ uam \in Uams
    /\ target \in SolveTargets
    /\ method \in Methods
    /\ logic \in Logics
    /\ \E support \in Supports, order \in RelationOrders :
           relations \in {clear_relations,
                          initialize(clear_relations, method, target, uam, support,
                                     agg_of(logic, order), {}).relations}
    /\ last = NoCall
    /\ calls = 0
    /\ mentioned = [cached |-> FALSE, value |-> <<>>]
    /\ pc = "idle"
    /\ n_jobs = 0
    /\ batch_size = 0
    /\ solve_relations = <<>>
    /\ programs = <<>>
    /\ tasks = <<>>
    /\ results = <<>>
    /\ finished = <<>>
    /\ collected = <<>>
    /\ flattened_data = <<>>
    /\ pool = "none"
    /\ landscape = NoLandscape
    /\ engine_call = NoEngineCall
    /\ scalar = NoScalar
    /\ emitted = NoClause
    /\ scanned = NoScan

\* promis.solve(n_jobs=nj, batch_size=bs), on an engine that is not inside a
\* call of solve, up to the submission of the
\* programs to the pool; order: the iteration order of relation_arities
Solve(nj, bs, order) ==
    /\ pc \in {"idle", "returned", "raised"}
    /\ engine_call.count < MaxEngineCalls
    /\ n_jobs' = nj
    /\ batch_size' = bs
    /\ \E ment \in {IF mentioned.cached THEN mentioned.value
                    ELSE mentioned_relations(logic, order)} :
       \E g \in {get_all([raised |-> FALSE, error |-> None,
                          relations |-> relations, results |-> <<>>],
                         method, target, ment, 1)} :
           /\ mentioned' = [cached |-> TRUE, value |-> ment]
           /\ relations' = g.relations
           /\ solve_relations' = g.results
           /\ engine_call' = [NoEngineCall EXCEPT !.op = "solve",
                                  !.error = g.error,
                                  !.count = engine_call.count + 1]
           /\ IF g.raised
              THEN /\ pc' = "raised"
                   /\ programs' = <<>>
                   /\ tasks' = <<>>
                   /\ results' = <<>>
                   /\ pool' = "none"
              ELSE \E ps \in {build_programs(logic, target.n, bs, g.results)} :
                   /\ pc' = "pool"
                   /\ programs' = ps
                   /\ tasks' = [k \in 1..number_of_chunks(ps) |-> "queued"]
                   /\ results' = [k \in 1..number_of_chunks(ps) |-> NoResult]
                   /\ pool' = "open"
    /\ finished' = <<>>
    /\ collected' = <<>>
    /\ flattened_data' = <<>>
    /\ landscape' = NoLandscape
    /\ UNCHANGED <<uam, target, method, last, calls, logic, relationVars, scanVars>>

\* a free worker of the pool takes the next task of the queue
WorkerTake ==
    /\ pc = "pool"
    /\ Cardinality({k \in DOMAIN tasks : tasks[k] = "running"}) < n_jobs
    /\ \E k \in DOMAIN tasks :
           /\ tasks[k] = "queued"
           /\ \A j \in 1..(k - 1) : tasks[j] # "queued"
           /\ tasks' = [tasks EXCEPT ![k] = "running"]
    /\ UNCHANGED <<mapVars, relationVars, scanVars, engine_call, logic, mentioned, pc, n_jobs, batch_size,
                   solve_relations, programs, results, finished, collected,
                   flattened_data, pool, landscape>>

\* the worker of task k is through with run_inference on the programs of the
\* task and sends back the results, or the exception when an inference raised
WorkerFinish(k, ok) ==
    /\ pc = "pool"
    /\ k \in DOMAIN tasks
    /\ tasks[k] = "running"
    /\ tasks' = [tasks EXCEPT ![k] = "done"]
    /\ results' = [results EXCEPT ![k] =
                      IF ok
                      THEN [ok |-> TRUE,
                            value |-> [j \in DOMAIN chunk(programs, k) |->
                                          inference(chunk(programs, k)[j])]]
                      ELSE NoResult]
    /\ finished' = Append(finished, k)
    /\ UNCHANGED <<mapVars, relationVars, scanVars, engine_call, logic, mentioned, pc, n_jobs, batch_size,
                   solve_relations, programs, collected, flattened_data, pool,
                   landscape>>

\* the loop of solve takes what the iterator yields next: it extends
\* flattened_data by the batches of the task, or the exception of the worker
\* leaves solve through the with block, which terminates the pool
Collect ==
    /\ pc = "pool"
    /\ \E k \in imap(tasks, collected) :
       \E y \in {yielded(results[k])} :
           /\ collected' = Append(collected, k)
           /\ flattened_data' = flattened_data \o Concat(y.batches)
           /\ pc' = IF y.raised THEN "raised" ELSE pc
           /\ pool' = IF y.raised THEN "terminated" ELSE pool
    /\ UNCHANGED <<mapVars, relationVars, scanVars, engine_call, logic, mentioned, n_jobs, batch_size,
                   solve_relations, programs, tasks, results, finished,
                   landscape>>

\* the iterator is exhausted: the with block terminates the pool and solve
\* returns the copy of the target with flattened_data as v0
Return ==
    /\ pc = "pool"
    /\ Len(collected) = Len(tasks)
    /\ pool' = "terminated"
    /\ landscape' = [returned |-> TRUE, n |-> target.n, v0 |-> flattened_data]
    /\ pc' = "returned"
    /\ UNCHANGED <<mapVars, relationVars, scanVars, engine_call, logic, mentioned, n_jobs, batch_size,
                   solve_relations, programs, tasks, results, finished,
                   collected, flattened_data>>

SolveNext ==
    \/ \E nj \in 1..MaxJobs, bs \in 1..MaxBatch, order \in RelationOrders :
           Solve(nj, bs, order)
    \/ WorkerTake
    \/ \E k \in 1..MaxTarget, ok \in BOOLEAN : WorkerFinish(k, ok)
    \/ Collect
    \/ Return

SolveSpec == SolveInit /\ [][SolveNext]_vars

----------------------------------------------------------------------------
(* The engine: construction, its logic, and the arguments of solve         *)

\* the parameters of ProMis.__init__ besides self
InitParameters == <<"star_map", "logic">>

\* the parameters of ProMis.solve besides self
SolveParameters == <<"n_jobs", "batch_size", "show_progress", "print_first">>

\* a call with positional arguments and keywords binds to the parameters:
\* not more positional arguments than parameters, every keyword a parameter
\* that no positional argument has filled, and (required) every one of the
\* first `required` parameters filled
call_binds(parameters, required, positional, keywords) ==
    /\ Len(positional) <= Len(parameters)
    /\ \A k \in keywords :
           \E i \in DOMAIN parameters : parameters[i] = k /\ i > Len(positional)
    /\ \A i \in 1..required : i <= Len(positional) \/ parameters[i] \in keywords

\* the ways of giving a logic to solve: as the smoke test does,
\* solve(support, logic, n_jobs=4, batch_size=1), and as a keyword,
\* solve(logic=logic)
SolveForms ==
    {[positional |-> <<"support", "logic">>, keywords |-> {"n_jobs", "batch_size"}],
     [positional |-> <<>>, keywords |-> {"logic"}]}

\* the ways of constructing an engine: ProMis(star_map, logic), and as the
\* smoke test does, ProMis(star_map)
InitForms ==
    {[positional |-> <<"star_map", "logic">>, keywords |-> {}],
     [positional |-> <<"star_map">>, keywords |-> {}]}

\* an engine for one target point on a StaR Map with linear interpolation
EngineInit ==
    /\ SolveInit
    /\ target.n = 1
    /\ method = "linear"

\* promis = ProMis(...) with the arguments of the form; when it raises, the
\* name keeps the engine it had
ConstructEngine(form, logic_) ==
    /\ pc # "pool"
    /\ engine_call.count < MaxEngineCalls
    /\ IF call_binds(InitParameters, Len(InitParameters), form.positional,
                     form.keywords)
       THEN /\ logic' = logic_
            /\ mentioned' = [cached |-> FALSE, value |-> <<>>]
            /\ pc' = "idle"
            /\ n_jobs' = 0
            /\ batch_size' = 0
            /\ solve_relations' = <<>>
            /\ programs' = <<>>
            /\ tasks' = <<>>
            /\ results' = <<>>
            /\ finished' = <<>>
            /\ collected' = <<>>
            /\ flattened_data' = <<>>
            /\ pool' = "none"
            /\ landscape' = NoLandscape
            /\ engine_call' = [NoEngineCall EXCEPT !.op = "construct",
                                   !.logic_given = TRUE, !.logic_arg = logic_,
                                   !.count = engine_call.count + 1]
       ELSE /\ engine_call' = [NoEngineCall EXCEPT !.op = "construct",
                                   !.error = "TypeError",
                                   !.count = engine_call.count + 1]
            /\ UNCHANGED <<logic, mentioned, pc, n_jobs, batch_size,
                           solve_relations, programs, tasks, results, finished,
                           collected, flattened_data, pool, landscape>>
    /\ UNCHANGED <<mapVars, relationVars, scanVars>>

\* promis.logic = logic_: the attribute is assigned, the cache of
\* mentioned_relations stays
SetLogic(logic_) ==
    /\ pc # "pool"
    /\ engine_call.count < MaxEngineCalls
    /\ logic' = logic_
    /\ engine_call' = [NoEngineCall EXCEPT !.op = "set_logic",
                           !.logic_given = TRUE, !.logic_arg = logic_,
                           !.count = engine_call.count + 1]
    /\ UNCHANGED <<mapVars, relationVars, scanVars, mentioned, pc, n_jobs,
                   batch_size, solve_relations, programs, tasks, results,
                   finished, collected, flattened_data, pool, landscape>>

\* promis.solve(...) with a logic among the arguments of the form: the call
\* raises when the arguments do not bind, before the body of solve runs
SolveWithLogic(form, logic_) ==
    /\ pc # "pool"
    /\ engine_call.count < MaxEngineCalls
    /\ ~call_binds(SolveParameters, 0, form.positional, form.keywords)
    /\ pc' = "raised"
    /\ engine_call' = [NoEngineCall EXCEPT !.op = "solve",
                           !.logic_given = TRUE, !.logic_arg = logic_,
                           !.error = "TypeError",
                           !.count = engine_call.count + 1]
    /\ n_jobs' = 0
    /\ batch_size' = 0
    /\ solve_relations' = <<>>
    /\ programs' = <<>>
    /\ tasks' = <<>>
    /\ results' = <<>>
    /\ finished' = <<>>
    /\ collected' = <<>>
    /\ flattened_data' = <<>>
    /\ pool' = "none"
    /\ landscape' = NoLandscape
    /\ UNCHANGED <<mapVars, relationVars, scanVars, logic, mentioned>>

EngineNext ==
    \/ \E form \in InitForms, logic_ \in Logics : ConstructEngine(form, logic_)
    \/ \E logic_ \in Logics : SetLogic(logic_)
    \/ \E form \in SolveForms, logic_ \in Logics : SolveWithLogic(form, logic_)
    \/ \E order \in RelationOrders : Solve(1, 1, order)
    \/ WorkerTake
    \/ \E ok \in BOOLEAN : WorkerFinish(1, ok)
    \/ Collect
    \/ Return

EngineSpec == EngineInit /\ [][EngineNext]_vars

----------------------------------------------------------------------------
(* Claims about the engine, checked under EngineSpec                       *)

\* C15: a ProMis engine can be built from a StaR Map and the logic given
\* either at construction or in the call to solve; when the logic is passed
\* to solve, the programs sent to the solver are built from that logic.
C15_LogicAtSolve ==
    /\ engine_call.op = "construct" => engine_call.error = None
    /\ (engine_call.op = "solve" /\ engine_call.logic_given) =>
           /\ engine_call.error = None
           /\ pc \in {"pool", "returned"} =>
                  /\ Len(programs) = target.n
                  /\ \A k \in DOMAIN programs :
                         programs[k].logic = engine_call.logic_arg

\* C19: mentioned_relations is memoized per logic string: at every call of
\* solve the relations used equal the scan of the engine's current logic, so
\* after the logic of an engine is replaced by another string, solve
\* retrieves and emits the relations of the new logic, not those cached for
\* the old one.
C19_MemoizedPerLogic ==
    (engine_call.op = "solve" /\ ~engine_call.logic_given) =>
        \E order \in RelationOrders :
            /\ mentioned.value = mentioned_relations(logic, order)
            /\ engine_call.error = None =>
                   [i \in DOMAIN solve_relations |->
                       <<solve_relations[i].name, solve_relations[i].location_type>>]
                       = mentioned_relations(logic, order)

----------------------------------------------------------------------------
(* A StaR Map and the engine built on it, used in turn                     *)

\* star_map = StaRMap(target, uam, method) for one target point and
\* promis = ProMis(star_map, logic); nothing is initialized yet
UseInit ==
    /\ SolveInit
    /\ target.n = 1
    /\ relations = clear_relations

\* the calls of one thread: on the StaR Map (initialize with the logic of the
\* engine, get, clear_relations) while no solve is under way, and solve; a
\* call of solve runs to its end before the next call
UseNext ==
    \/ pc # "pool" /\ \E support \in Supports : Initialize(support, logic)
    \/ pc # "pool" /\ \E g \in GetInputs : Get(g[1], g[2])
    \/ pc # "pool" /\ ClearRelations
    \/ \E order \in RelationOrders : Solve(1, 1, order)
    \/ WorkerTake
    \/ \E ok \in BOOLEAN : WorkerFinish(1, ok)
    \/ Collect
    \/ Return

UseSpec == UseInit /\ [][UseNext]_vars

----------------------------------------------------------------------------
(* Claims about the StaR Map and its engine, checked under UseSpec         *)

\* the step is a call of solve
solve_called == engine_call'.op = "solve" /\ engine_call'.count = engine_call.count + 1

\* C22: after initialize(support, K, logic) has returned on a StaR Map,
\* solve of an engine built on that map with the same logic retrieves only
\* slots that initialize fitted: the pairs found by the engine's scanner are
\* those found by the scanner of the StaR Map, so no get inside solve meets a
\* slot without approximator.
C22_SolveAfterInitialize ==
    [][(last.op = "initialize" /\ ~last.raised /\ solve_called) =>
          /\ \A r \in RelationNames, t \in Types :
                 listed(last.what, r, t) <=> <<r, t>> \in Range(mentioned'.value)
          /\ \A pair \in Range(mentioned'.value) :
                 relations[pair[1]][pair[2]].approximator # NoApproximator
          /\ pc' # "raised"
          /\ Len(solve_relations') = Len(mentioned'.value)]_vars

\* solve has retrieved the relations of two mentioned pairs from a StaR Map
\* that initialize had just fitted for the logic
C22_Witness ==
    /\ last.op = "initialize"
    /\ ~last.raised
    /\ engine_call.op = "solve"
    /\ pc \in {"pool", "returned"}
    /\ Len(solve_relations) = 2
    /\ \A i \in DOMAIN solve_relations :
           solve_relations[i].approximator # NoApproximator

\* the step is a call of get
get_called == last'.op = "get" /\ calls' = calls + 1

\* C23: get and solve leave the StaR Map unchanged, also when they fail: the
\* target's values, the set of slots of every relation, every slot's support
\* and approximator, and hence is_fitted, are after the call as before it.
C23_GetAndSolveFrame ==
    [][(get_called \/ solve_called) =>
          /\ target' = target
          /\ \A r \in RelationNames, t \in Types :
                 /\ relations'[r][t].present = relations[r][t].present
                 /\ relations'[r][t].collection = relations[r][t].collection
                 /\ relations'[r][t].approximator = relations[r][t].approximator
          /\ is_fitted(relations') = is_fitted(relations)]_vars

----------------------------------------------------------------------------
(* Scalar relations                                                        *)
(*                                                                         *)
(* Variances are counted in units of 0.0001.                               *)

\* the default of enforced_min_variance: 0.001
DefaultMinVariance == 10

\* the minimum in Distance.__init__ of logic/spatial/distance.py: 0.001
DistanceMinVariance == 10

MaxPoints == 2      \* points of the parameters of a scalar relation

\* the variances given to a constructor
Variances == {0, 5, 10, 15, 25}

VarianceColumns == SeqsUpTo(Variances, MaxPoints) \ {<<>>}

\* the values given as enforced_min_variance: a float, or None
Enforced(value) == [enforced |-> TRUE, value |-> value]

MinVariances == {Enforced(v) : v \in {0, 5, DefaultMinVariance, 20}} \cup {NoMinimum}

\* a clip that leaves its argument as it is
clip_nothing(a, a_min) == a

\* numpy.clip(a, a_min, None) for a number a_min
clip(a, a_min) == [i \in DOMAIN a |-> IF a[i] < a_min THEN a_min ELSE a[i]]

\* numpy.clip(a, None, None): depending on the version of numpy it raises a
\* ValueError or returns a as it is
clip_none(a) == {[raised |-> TRUE, v1 |-> a], [raised |-> FALSE, v1 |-> a]}

\* ScalarRelation.__init__(parameters, location_type, problog_name,
\* enforced_min_variance): the outcomes for the column v1 of the parameters
ScalarRelation_init(v1, enforced_min_variance) ==
    IF enforced_min_variance.enforced
    THEN {[raised |-> FALSE, v1 |-> clip(v1, enforced_min_variance.value)]}
    ELSE clip_none(v1)

RelationInit == Init

\* ScalarRelation(parameters, location_type, problog_name, minimum) of a
\* subclass that implements the abstract methods
ConstructScalarRelation(v1, minimum) ==
    /\ \E r \in ScalarRelation_init(v1, minimum) :
           scalar' = IF r.raised THEN scalar
                     ELSE [constructed |-> TRUE, by |-> "ScalarRelation",
                           given |-> v1, minimum |-> minimum, v1 |-> r.v1]
    /\ UNCHANGED <<mapVars, solveVars, scanVars, emitted>>

\* the last line of StaRMap.get for a scalar relation: the class of the
\* relation is called with (parameters, location_type) and leaves
\* enforced_min_variance at its default
ConstructByGet(v1) ==
    /\ \E r \in ScalarRelation_init(v1, Enforced(DefaultMinVariance)) :
           scalar' = [constructed |-> TRUE, by |-> "get", given |-> v1,
                      minimum |-> Enforced(DefaultMinVariance), v1 |-> r.v1]
    /\ UNCHANGED <<mapVars, solveVars, scanVars, emitted>>

\* Distance(mean, variance, location_type) of logic/spatial/distance.py
ConstructDistance(variance) ==
    /\ scalar' = [constructed |-> TRUE, by |-> "Distance", given |-> variance,
                  minimum |-> Enforced(DistanceMinVariance),
                  v1 |-> clip(variance, DistanceMinVariance)]
    /\ UNCHANGED <<mapVars, solveVars, scanVars, emitted>>

RelationNext ==
    \/ \E v1 \in VarianceColumns, minimum \in MinVariances :
           ConstructScalarRelation(v1, minimum)
    \/ \E v1 \in VarianceColumns : ConstructByGet(v1)
    \/ \E variance \in VarianceColumns : ConstructDistance(variance)

RelationSpec == RelationInit /\ [][RelationNext]_vars

----------------------------------------------------------------------------
(* Claims about scalar relations, checked under RelationSpec               *)

----------------------------------------------------------------------------
(* The clauses of the relations                                            *)
(*                                                                         *)
(* The text of a clause is the sequence of the pieces its f-string is made *)
(* of: the literal parts, and the values formatted into it.                *)

\* a literal part of an f-string
lit(text) == [kind |-> "literal", text |-> text, number |-> 0]

\* a number formatted into an f-string
num(number) == [kind |-> "number", text |-> "", number |-> number]

\* a location type formatted into an f-string: a str is written as it is
\* and None is written None
str(location_type) ==
    [kind |-> "value", text |-> IF location_type = None THEN "None"
                                ELSE location_type,
     number |-> 0]

\* the values in the column v0 of the parameters
Means == {3, 7}

MeanColumns == [1..MaxPoints -> Means]

\* the variances in the column v1 given to the constructor
ClauseVariances == [1..MaxPoints -> {5, 15}]

\* a ScalarRelation that writes the second argument whatever the type is
ScalarRelation_clause_always_typed(relation, index) ==
    <<lit(relation.problog_name), lit("(x_"), num(index), lit(", "),
      str(relation.location_type), lit(")"), lit(" ~ "), lit("normal("),
      num(relation.v0[index + 1]), lit(", "), num(relation.v1[index + 1]),
      lit(")"), lit(".\n")>>

\* ScalarRelation.index_to_distributional_clause(index)
ScalarRelation_clause(relation, index) ==
    LET relation_ ==
            IF relation.location_type = None
            THEN <<lit(relation.problog_name), lit("(x_"), num(index), lit(")")>>
            ELSE <<lit(relation.problog_name), lit("(x_"), num(index), lit(", "),
                   str(relation.location_type), lit(")")>>
        distribution ==
            <<lit("normal("), num(relation.v0[index + 1]), lit(", "),
              num(relation.v1[index + 1]), lit(")")>>
    IN  relation_ \o <<lit(" ~ ")>> \o distribution \o <<lit(".\n")>>

\* Over.index_to_distributional_clause(index)
Over_clause(relation, index) ==
    <<num(relation.v0[index + 1]), lit("::over(x_"), num(index), lit(", "),
      str(relation.location_type), lit(").\n")>>

ClauseInit == Init

\* relation = Subclass(parameters, location_type, problog_name) of
\* ScalarRelation, then relation.index_to_distributional_clause(index)
EmitScalar(problog_name, location_type, v0, v1, index) ==
    /\ index < Len(v0)
    /\ \E r \in ScalarRelation_init(v1, Enforced(DefaultMinVariance)) :
       \E relation \in {[NoClause EXCEPT !.class = "ScalarRelation",
                            !.problog_name = problog_name,
                            !.location_type = location_type,
                            !.v0 = v0, !.v1 = r.v1, !.index = index]} :
           /\ ~r.raised
           /\ emitted' = [relation EXCEPT
                             !.done = TRUE,
                             !.text = ScalarRelation_clause(relation, index)]
    /\ UNCHANGED <<mapVars, solveVars, scanVars, scalar>>

\* relation = Over(parameters, location_type), then
\* relation.index_to_distributional_clause(index)
EmitOver(location_type, v0, index) ==
    /\ index < Len(v0)
    /\ \E relation \in {[NoClause EXCEPT !.class = "Over",
                            !.problog_name = "over",
                            !.location_type = location_type,
                            !.v0 = v0, !.index = index]} :
           emitted' = [relation EXCEPT
                          !.done = TRUE, !.text = Over_clause(relation, index)]
    /\ UNCHANGED <<mapVars, solveVars, scanVars, scalar>>

ClauseNext ==
    \/ \E problog_name \in {"distance", "depth"}, location_type \in {"b", None},
          v0 \in MeanColumns, v1 \in ClauseVariances, index \in 0..(MaxPoints - 1) :
           EmitScalar(problog_name, location_type, v0, v1, index)
    \/ \E location_type \in LocationTypes, v0 \in MeanColumns,
          index \in 0..(MaxPoints - 1) :
           EmitOver(location_type, v0, index)

ClauseSpec == ClauseInit /\ [][ClauseNext]_vars

----------------------------------------------------------------------------
(* Claims about the clauses, checked under ClauseSpec                      *)

\* the pieces of a line that are not literal parts: the values written
values_written(text) ==
    SelectSeq(text, LAMBDA piece : piece.kind # "literal")

\* the literal parts of a line, in order
literals(text) ==
    [i \in DOMAIN SelectSeq(text, LAMBDA piece : piece.kind = "literal") |->
        SelectSeq(text, LAMBDA piece : piece.kind = "literal")[i].text]

\* where the literal parts and the values stand in a line
shape(text) == [i \in DOMAIN text |-> text[i].kind]

\* C24: the clause emitter writes, for point index i, one line per relation:
\* a ScalarRelation gives name(x_i, type) ~ normal(mean_i, variance_i). with
\* the second argument and the comma left out when the location type is
\* None, and the over relation gives mean_i::over(x_i, type).; the values
\* used are those at index i of the relation's parameters.
C24_ClauseFormat ==
    emitted.done =>
        /\ emitted.class = "ScalarRelation" /\ emitted.location_type # None =>
               /\ literals(emitted.text) =
                      <<emitted.problog_name, "(x_", ", ", ")", " ~ ",
                        "normal(", ", ", ")", ".\n">>
               /\ values_written(emitted.text) =
                      <<num(emitted.index), str(emitted.location_type),
                        num(emitted.v0[emitted.index + 1]),
                        num(emitted.v1[emitted.index + 1])>>
               /\ shape(emitted.text) =
                      <<"literal", "literal", "number", "literal", "value",
                        "literal", "literal", "literal", "number", "literal",
                        "number", "literal", "literal">>
        /\ emitted.class = "ScalarRelation" /\ emitted.location_type = None =>
               /\ literals(emitted.text) =
                      <<emitted.problog_name, "(x_", ")", " ~ ",
                        "normal(", ", ", ")", ".\n">>
               /\ values_written(emitted.text) =
                      <<num(emitted.index),
                        num(emitted.v0[emitted.index + 1]),
                        num(emitted.v1[emitted.index + 1])>>
               /\ shape(emitted.text) =
                      <<"literal", "literal", "number", "literal", "literal",
                        "literal", "number", "literal", "number", "literal",
                        "literal">>
        /\ emitted.class = "Over" =>
               /\ literals(emitted.text) = <<"::over(x_", ", ", ").\n">>
               /\ values_written(emitted.text) =
                      <<num(emitted.v0[emitted.index + 1]), num(emitted.index),
                        str(emitted.location_type)>>
               /\ shape(emitted.text) =
                      <<"number", "literal", "number", "literal", "value",
                        "literal">>

\* a scalar relation without location type wrote the clause of its second
\* point, and so left out the comma and the second argument
C24_Witness ==
    /\ emitted.done
    /\ emitted.class = "ScalarRelation"
    /\ emitted.location_type = None
    /\ emitted.index = 1
    /\ emitted.v0[1] # emitted.v0[2]
    /\ emitted.v1[1] # emitted.v1[2]

----------------------------------------------------------------------------
(* The scanners on their own                                               *)

\* the atoms of the texts scanned: every way of writing the comma and the
\* location type, an atom of arity 1, identifiers that end in a relation
\* name, and atoms whose first argument is not X
ScanAtoms ==
    {Written(Atom(n, "X", "b"), before, after, q) :
        n \in {"distance", "over"}, before \in BOOLEAN, after \in BOOLEAN,
        q \in {"none", "single", "double"}}
    \cup {Atom("depth", "X", None)}
    \cup {Prefixed(Atom("distance", "X", "b"), "my"),
          Prefixed(Atom("depth", "X", None), "my"),
          Atom("over", "Y", "b"), Atom("depth", "Y", None)}

ScanLogics == SeqsUpTo(ScanAtoms, MaxLogicLen)

\* a StaR Map and an engine ProMis(star_map, logic), nothing scanned yet
ScanInit ==
    /\ uam \in Uams
    /\ target \in {t \in Targets : t.origin = uam.origin}
    /\ method = "linear"
    /\ relations = clear_relations
    /\ last = NoCall
    /\ calls = 0
    /\ logic \in ScanLogics
    /\ mentioned = [cached |-> FALSE, value |-> <<>>]
    /\ pc = "idle"
    /\ n_jobs = 0
    /\ batch_size = 0
    /\ solve_relations = <<>>
    /\ programs = <<>>
    /\ tasks = <<>>
    /\ results = <<>>
    /\ finished = <<>>
    /\ collected = <<>>
    /\ flattened_data = <<>>
    /\ pool = "none"
    /\ landscape = NoLandscape
    /\ engine_call = NoEngineCall
    /\ scalar = NoScalar
    /\ emitted = NoClause
    /\ scanned = NoScan

\* star_map._get_mentioned_relations(logic) on the logic of the engine
GetMentionedRelations(order) ==
    /\ scanned' = [done |-> TRUE, value |-> get_mentioned_relations(logic, order)]
    /\ UNCHANGED <<mapVars, solveVars, relationVars>>

\* promis.mentioned_relations: computed at the first access, then cached
MentionedRelations(order) ==
    /\ mentioned' = IF mentioned.cached THEN mentioned
                    ELSE [cached |-> TRUE,
                          value |-> mentioned_relations(logic, order)]
    /\ UNCHANGED <<mapVars, relationVars, scanVars, engine_call, logic, pc,
                   n_jobs, batch_size, solve_relations, programs, tasks,
                   results, finished, collected, flattened_data, pool,
                   landscape>>

ScanNext ==
    \/ \E order \in RelationOrders : GetMentionedRelations(order)
    \/ \E order \in RelationOrders : MentionedRelations(order)

ScanSpec == ScanInit /\ [][ScanNext]_vars

----------------------------------------------------------------------------
(* Claims about the scanners, checked under ScanSpec                       *)

\* the pairs of the occurrences the scanner recognises, by their position
\* in the text
in_source_order(logic_) ==
    Concat([i \in DOMAIN logic_ |-> scan_name(logic_[i].name, <<logic_[i]>>)])

\* C11: the scanner returns the (relation, location type) pairs in source
\* order, ordered by the position of their occurrence in the logic text also
\* when the program mentions several different relation names, and it keeps
\* one entry per occurrence (duplicates are not removed).
C11_SourceOrder ==
    /\ scanned.done => scanned.value = in_source_order(logic)
    /\ mentioned.cached => mentioned.value = in_source_order(logic)

\* the pair the atom n(X, T) stands for, however it is written
pair_of(atom) == <<atom.name, atom.type>>

\* C20: the scanner tolerates whitespace on both sides of the comma between
\* X and the location type and accepts the location type in single or in
\* double quotes: every atom n(X , T), n(X, 'T'), n(X, "T") of the logic
\* yields the pair (n, T).
C20_WhitespaceAndQuotes ==
    \A i \in DOMAIN logic :
        (logic[i].arg = "X" /\ logic[i].type # None) =>
            /\ scanned.done => pair_of(logic[i]) \in Range(scanned.value)
            /\ mentioned.cached => pair_of(logic[i]) \in Range(mentioned.value)

\* an occurrence of a registered relation name applied to X: the identifier
\* is the name itself, the first argument is X, and a location type is
\* there exactly for arity 2
proper(atom) ==
    /\ atom.prefix = ""
    /\ atom.arg = "X"
    /\ atom.name \in RelationNames
    /\ (arity(atom.name) = 1) <=> (atom.type = None)

\* how many proper occurrences of the logic stand for the pair
occurrences(logic_, pair) ==
    Cardinality({i \in DOMAIN logic_ :
                    proper(logic_[i]) /\ pair_of(logic_[i]) = pair})

\* how many times the scanner's list holds the pair
times_emitted(list, pair) == Cardinality({i \in DOMAIN list : list[i] = pair})

\* C21: the scanner emits a pair only for an occurrence of a registered
\* relation name applied to the literal variable X: n(X) of arity 1 yields
\* (n, None), n(X, T) of arity 2 yields (n, T) with the quotes of T removed,
\* and text in which the relation name is only the tail of a longer
\* identifier, or whose first argument is not X, yields nothing.
C21_OnlyRelationsOfX ==
    /\ scanned.done =>
           \A pair \in Range(scanned.value) :
               times_emitted(scanned.value, pair) <= occurrences(logic, pair)
    /\ mentioned.cached =>
           \A pair \in Range(mentioned.value) :
               times_emitted(mentioned.value, pair) <= occurrences(logic, pair)

----------------------------------------------------------------------------
(* Claims about solve, checked under SolveSpec                             *)

\* C1: for every n_jobs >= 1 and every order in which the workers finish
\* their programs, solve collects the batch results in submission order: the
\* probability at output index i is the one computed for query
\* landscape(x_i), from the logic and the clauses of the i-th target point.
C1_SubmissionOrder ==
    /\ \A i \in DOMAIN flattened_data :
           flattened_data[i] =
               [index |-> i - 1, logic |-> logic,
                clauses |-> clauses(solve_relations, i - 1)]
    /\ landscape.returned => landscape.v0 = flattened_data

\* solve returned with two workers that finished programs out of order
C1_Witness ==
    /\ landscape.returned
    /\ n_jobs >= 2
    /\ Len(landscape.v0) >= 2
    /\ \E i, j \in DOMAIN finished : i < j /\ finished[i] > finished[j]

\* C2: for every target of M >= 0 points and every batch_size >= 1, M a
\* multiple of batch_size or not, the collection solve returns has exactly M
\* values in v0 (the solver returning one probability per query).
C2_OutputLength ==
    landscape.returned =>
        /\ Len(landscape.v0) = target.n
        /\ landscape.n = target.n

\* solve returned for a target whose size is above batch_size and not a
\* multiple of it
C2_Witness ==
    /\ landscape.returned
    /\ target.n > batch_size
    /\ target.n % batch_size # 0
    /\ Len(programs[Len(programs)].body) < Len(programs[1].body)

\* the indices of the queries of a program
queried(program) ==
    {program.body[i].index : i \in {j \in DOMAIN program.body :
                                       program.body[j].kind = "query"}}

\* C3: the result of solve does not depend on batch_size: for the batch size
\* of the call and any other one >= 1 the generated programs together hold
\* the queries 0..M-1 in the same order, every index in exactly one program
\* and followed by the same relation clauses, so that a solver answering each
\* query from the logic and the clauses of its index gives equal
\* probabilities.
C3_BatchSizeIndependent ==
    pc \in {"pool", "returned"} =>
        /\ \A i \in 0..(target.n - 1) :
               Cardinality({k \in DOMAIN programs : i \in queried(programs[k])}) = 1
        /\ \A k \in DOMAIN programs : queried(programs[k]) \subseteq 0..(target.n - 1)
        /\ \A bs \in 1..MaxBatch :
               \E other \in {build_programs(logic, target.n, bs, solve_relations)} :
                   /\ Concat([k \in DOMAIN programs |-> programs[k].body])
                          = Concat([k \in DOMAIN other |-> other[k].body])
                   /\ Concat([k \in DOMAIN programs |-> inference(programs[k])])
                          = Concat([k \in DOMAIN other |-> inference(other[k])])
                   /\ landscape.returned =>
                          landscape.v0
                              = Concat([k \in DOMAIN other |-> inference(other[k])])

\* solve returned with programs of several queries each, with clauses, that
\* differ from the programs of batch_size = 1
C3_Witness ==
    /\ landscape.returned
    /\ batch_size >= 2
    /\ target.n > batch_size
    /\ solve_relations # <<>>
    /\ programs # build_programs(logic, target.n, 1, solve_relations)

\* C4: solve either returns a landscape holding a probability for every
\* target point or fails: when the inference of a program raised, solve does
\* not return (it raises), no collection holding part of the results is
\* returned, and the worker pool is shut down.
C4_AllOrNothing ==
    /\ landscape.returned =>
           /\ pc = "returned"
           /\ Len(landscape.v0) = target.n
           /\ \A k \in DOMAIN results : results[k].ok
           /\ pool = "terminated"
    /\ pc = "raised" =>
           /\ landscape = NoLandscape
           /\ pool # "open"
    /\ (\E k \in Range(collected) : ~results[k].ok) => pc = "raised"
    /\ pc \in {"idle", "pool"} => landscape = NoLandscape

\* solve raised on the exception of a worker after it had collected the
\* results of another program
C4_Witness ==
    /\ pc = "raised"
    /\ pool = "terminated"
    /\ flattened_data # <<>>
    /\ \E k \in Range(collected) : ~results[k].ok

\* C16: in every program that solve generates, each relation atom of a
\* point is defined at most once: for every index i of the batch and every
\* distinct (relation, location type) pair there is exactly one emitted
\* clause, also when the logic mentions that pair several times.
C16_OneClausePerPair ==
    pc \in {"pool", "returned"} =>
        \A k \in DOMAIN programs : \A i \in queried(programs[k]) :
            \A j \in DOMAIN solve_relations :
                Cardinality({c \in DOMAIN programs[k].body :
                    /\ programs[k].body[c].kind = "clause"
                    /\ programs[k].body[c].index = i
                    /\ programs[k].body[c].relation.name = solve_relations[j].name
                    /\ programs[k].body[c].relation.location_type
                           = solve_relations[j].location_type}) = 1

----------------------------------------------------------------------------
(* Claims about the StaR Map, checked under Spec                           *)

\* the rows a call appended to the collection of a slot
appended(r, t) ==
    SubSeq(relations'[r][t].collection,
           Len(relations[r][t].collection) + 1,
           Len(relations'[r][t].collection))

\* C12: clear_relations discards the support points and the approximators
\* of every slot of every relation and leaves the target, the UAM and the
\* method unchanged; afterwards the relation names over, distance and depth
\* are still known.
C12_ClearRelationsFrame ==
    [][(calls' = calls + 1 /\ last'.op = "clear_relations") =>
          /\ DOMAIN relations' = {"over", "distance", "depth"}
          /\ \A r \in DOMAIN relations' : \A t \in Types :
                 /\ relations'[r][t].collection = <<>>
                 /\ relations'[r][t].approximator = NoApproximator
          /\ target' = target
          /\ uam' = uam
          /\ method' = method]_vars

\* clear_relations was called on a StaR Map that held support points
C12_Witness ==
    /\ last.op = "clear_relations"
    /\ last.discarded # {}
    /\ \A r \in RelationNames, t \in Types : relations[r][t].collection = <<>>

\* C13: when the method is gaussian_process and the target is a raster
\* band, after auto_improve(K, N, relations, location_types) every listed
\* slot (here: fitted by a Gaussian process before the call) holds exactly N
\* more support points than before, taken at N distinct target-grid
\* locations.
C13_AutoImproveAddsN ==
    [][(/\ calls' = calls + 1
        /\ last'.op = "auto_improve"
        /\ method = "gaussian_process"
        /\ \A r \in Range(last'.relation_list), t \in Range(last'.type_list) :
               /\ r \in RelationNames
               /\ relations[r][t].approximator.method = "gaussian_process") =>
          /\ ~last'.raised
          /\ \A r \in Range(last'.relation_list), t \in Range(last'.type_list) :
                 /\ Len(appended(r, t)) = last'.points
                 /\ Cardinality({appended(r, t)[i].loc :
                                    i \in DOMAIN appended(r, t)}) = last'.points]_vars

\* one representative per cluster of the collection: the member with the
\* earliest index, in the original order and with its own values
representatives(collection, threshold) ==
    LET first(i) == \A j \in 1..(i - 1) :
                        ~same_cluster(collection, threshold, i, j)
        keep == SelectSeq([i \in DOMAIN collection |-> i], first)
    IN  [i \in DOMAIN keep |-> collection[keep[i]]]

\* C14: prune(threshold, relations, location_types) replaces the support of
\* each listed slot (here: slots that hold the two points clustering needs)
\* by one representative per cluster, the member with the earliest index,
\* kept in their original order with their own (mean, variance) values, and
\* returns with the approximator of the slot refit on the pruned support.
C14_PruneKeepsRepresentatives ==
    [][(/\ calls' = calls + 1
        /\ last'.op = "prune"
        /\ \A r \in Range(last'.relation_list), t \in Range(last'.type_list) :
               /\ r \in RelationNames
               /\ Len(relations[r][t].collection) >= MinSamples) =>
          /\ ~last'.raised
          /\ \A r \in Range(last'.relation_list), t \in Range(last'.type_list) :
                 /\ relations'[r][t].collection =
                        representatives(relations[r][t].collection,
                                        last'.threshold)
                 /\ relations'[r][t].approximator =
                        approximator_of(method, target,
                                        relations'[r][t].collection)]_vars

\* C17: in every reachable state of a StaR Map, for every (relation,
\* location type) slot, the approximator is None if and only if the slot
\* holds no support points or its fit has been invalidated; in particular no
\* slot keeps a non-None approximator fitted on a support collection that
\* has since been mutated (by add_support_points or prune, whether or not
\* the call completed).
C17_NoStaleApproximator ==
    \A r \in RelationNames, t \in Types :
        /\ ~relations[r][t].present =>
               relations[r][t].approximator = NoApproximator
        /\ relations[r][t].approximator # NoApproximator =>
               relations[r][t].approximator.fitted_on = relations[r][t].collection

\* C5: initialize(support, K, logic) adds support for exactly the mentioned
\* (relation, location type) pairs: every mentioned slot gains exactly one
\* entry per support location, however often the pair is mentioned and
\* whether or not its location type is mentioned under another relation, and
\* no other slot gains an entry.
C5_InitializeExactlyMentioned ==
    [][(last'.op = "initialize" /\ ~last'.raised) =>
          \A r \in RelationNames, t \in Types :
              Len(appended(r, t)) =
                  IF listed(last'.what, r, t) THEN Len(last'.support) ELSE 0]_vars

\* C6: after set_method(m) has returned for a supported m, every slot that
\* holds support points has an approximator built with method m, and no
\* later get evaluates an approximator built for another method, in every
\* state that calls on the StaR Map reach, failed calls included.
C6_SetMethodRefits ==
    /\ (last.op = "set_method" /\ ~last.raised) =>
          \A r \in RelationNames, t \in Types :
              (relations[r][t].present /\ relations[r][t].collection # <<>>) =>
                  /\ relations[r][t].approximator # NoApproximator
                  /\ relations[r][t].approximator.method = method
    /\ (last.op = "get" /\ ~last.raised) =>
          last.result.approximator.method = method

C8_ConfigErrorsEager ==
    [][/\ (last'.op \in {"set_method", "construct"}
              /\ last'.new_method \notin Methods) => last'.raised
       /\ (last'.op \in {"set_target", "construct"}
              /\ last'.new_target.origin # uam.origin) => last'.raised
       /\ (last'.op \in {"set_method", "set_target", "construct"}
              /\ last'.raised) =>
             (method' = method /\ target' = target /\ relations' = relations)
      ]_vars

\* an unsupported method was refused on a StaR Map that holds a fitted slot
C8_Witness ==
    /\ last.op = "set_method"
    /\ last.new_method \notin Methods
    /\ last.raised
    /\ method \in Methods
    /\ \E r \in RelationNames, t \in Types :
           relations[r][t].approximator # NoApproximator

\* C18: when the evaluation of the kernel raises for a support location
\* during add_support_points, no error surfaces from the call and the whole
\* (relation, type) slot carries the empty-map sentinel for all of its support
\* points, those added by earlier calls included; of that call the slot holds
\* no partial column.
C18_KernelFailureWholeSlot ==
    [][(/\ calls' = calls + 1
        /\ last'.op = "add_support_points"
        /\ last'.failed # {}
        /\ \A i \in DOMAIN last'.what : last'.what[i][1] \in RelationNames) =>
          /\ ~last'.raised
          /\ \A p \in last'.failed :
                 /\ appended(p[1], p[2]) =
                        rows(last'.support, empty_map_parameters(p[1]))
                 /\ \A i \in DOMAIN relations'[p[1]][p[2]].collection :
                        relations'[p[1]][p[2]].collection[i].val =
                            empty_map_parameters(p[1])]_vars

\* C9: when the UAM holds no feature of a location type, add_support_points
\* appends to every listed slot of that type one entry per support location,
\* carrying the relation's empty_map_parameters(), and evaluates no kernel
\* for the slot.
C9_EmptyMapSentinelOnce ==
    [][(last'.op = "add_support_points" /\ ~last'.raised) =>
          \A r \in RelationNames, t \in Types :
              (listed(last'.what, r, t) /\ t \notin uam.features) =>
                  /\ appended(r, t) = rows(last'.support, empty_map_parameters(r))
                  /\ <<r, t>> \notin last'.kernel]_vars

====
